---- MODULE Spec2Model ----
(***************************************************************************)
(* GroqChatBot backend: the chat pipeline of backend/groq_handler.py       *)
(* (memory files, message builder, reply polisher, primary/fallback        *)
(* completion calls) and the POST /chat route of backend/main.py.          *)
(*                                                                         *)
(* Texts are sequences of code points; a code point is a one-character     *)
(* string, or "U+XXXX" for a character outside ASCII.                      *)
(***************************************************************************)
EXTENDS Integers, Sequences, FiniteSets, TLC

(***************************************************************************)
(* Bounds of the model.                                                    *)
(***************************************************************************)
\* requests started in one run, over all workers
MaxRequests == 2
\* storage faults (IOError on a memory-file operation) injected in one run
MaxFaults == 1

\* the request handlers of the HTTP server that can run at the same time
Procs == {"w1", "w2"}

(***************************************************************************)
(* Text helpers (Python str operations).                                   *)
(***************************************************************************)
Range(s) == {s[i] : i \in 1..Len(s)}

\* s[:n]
Take(s, n) == SubSeq(s, 1, IF Len(s) < n THEN Len(s) ELSE n)

\* s[-n:]
LastN(s, n) == SubSeq(s, (IF Len(s) > n THEN Len(s) - n ELSE 0) + 1, Len(s))

IsSpace(c) == c \in {" ", "\t", "\n", "\r", "\f"}

\* str.lstrip(): s from its first character that is not white space
LStrip(s) ==
    IF \A i \in 1..Len(s) : IsSpace(s[i]) THEN <<>>
    ELSE SubSeq(s, CHOOSE i \in 1..Len(s) :
                      ~IsSpace(s[i]) /\ \A j \in 1..(i - 1) : IsSpace(s[j]),
                Len(s))

\* str.rstrip(): s up to its last character that is not white space
RStrip(s) ==
    IF \A i \in 1..Len(s) : IsSpace(s[i]) THEN <<>>
    ELSE SubSeq(s, 1, CHOOSE i \in 1..Len(s) :
                         ~IsSpace(s[i]) /\ \A j \in (i + 1)..Len(s) : IsSpace(s[j]))

\* str.strip()
Strip(s) == RStrip(LStrip(s))

Uppers ==
    << "A","B","C","D","E","F","G","H","I","J","K","L","M",
       "N","O","P","Q","R","S","T","U","V","W","X","Y","Z" >>

Lowers ==
    << "a","b","c","d","e","f","g","h","i","j","k","l","m",
       "n","o","p","q","r","s","t","u","v","w","x","y","z" >>

DigitChars == << "0","1","2","3","4","5","6","7","8","9" >>

LowerChar(c) ==
    IF \E i \in 1..Len(Uppers) : Uppers[i] = c
    THEN Lowers[CHOOSE i \in 1..Len(Uppers) : Uppers[i] = c]
    ELSE c

\* str.lower()
LowerText(s) == [i \in 1..Len(s) |-> LowerChar(s[i])]

\* w in s
Contains(s, w) ==
    \E i \in 0..(Len(s) - Len(w)) : SubSeq(s, i + 1, i + Len(w)) = w

\* \w of the re module
IsWordChar(c) == c \in Range(Uppers) \cup Range(Lowers) \cup Range(DigitChars) \cup {"_"}

(***************************************************************************)
(* Fixed strings of the handler.                                           *)
(***************************************************************************)
APOLOGY == <<
    "S","e","r","v","e","r"," ","t","h","a","k"," ","g","a","y","a"," ","r",
    "e"," ","b","a","b","a",".",".","."," ","1","0"," ","s","e","c"," ","b",
    "a","a","d"," ","t","r","y"," ","k","a","r"," ","U+1F634" >>

BLANK_REPLY == <<
    "B","l","a","n","k"," ","m","e","s","s","a","g","e","?"," ","C","l","a",
    "s","s","i","c"," ","m","o","v","e"," ","U+1F644" >>

SCOUT_PREFIX == <<
    "[","S","c","o","u","t"," ","m","o","d","e"," ","a","c","t","i","v","a",
    "t","e","d","]"," " >>

DEFAULT_SYSTEM_PROMPT == <<
    "Y","o","u"," ","a","r","e"," ","a"," ","f","r","i","e","n","d","l","y",
    " ","a","s","s","i","s","t","a","n","t"," ","w","h","o"," ","r","e","s",
    "p","o","n","d","s"," ","w","i","t","h"," ","a"," ","c","a","s","u","a",
    "l"," ","t","o","n","e","." >>

PRIMARY_MODEL == "llama-3.3-70b-versatile"
FALLBACK_MODEL == "meta-llama/llama-4-scout-17b-16e-instruct"

\* the registry main.py imports from groq_handler: one entry, no "name" field
PERSONAS == [default |-> [system_prompt |-> DEFAULT_SYSTEM_PROMPT]]

\* msg[:200] of a stored turn
TURN_MAX_CHARS == 200
\* mem["conversations"][-60:] in generate_response
GR_MAX_HISTORY == 60
\* MAX_CONVERSATION_HISTORY of main.py
MAX_CONVERSATION_HISTORY == 60
\* mem.get("conversations", [])[-10:]
CONTEXT_TURNS == 10
\* text[:1000]
REPLY_MAX_CHARS == 1000

(***************************************************************************)
(* Mood detection.                                                         *)
(***************************************************************************)
POSITIVE_WORDS == {
    <<"g","o","o","d">>, <<"g","r","e","a","t">>, <<"a","w","e","s","o","m","e">>,
    <<"h","a","p","p","y">>, <<"c","o","o","l">>, <<"f","i","n","e">>,
    <<"l","o","v","e">>, <<"a","m","a","z","i","n","g">> }

NEGATIVE_WORDS == {
    <<"s","a","d">>, <<"t","i","r","e","d">>, <<"a","n","g","r","y">>,
    <<"u","p","s","e","t">>, <<"s","t","r","e","s","s","e","d">>,
    <<"b","a","d">>, <<"b","o","r","e","d">> }

detect_mood(text) ==
    IF text = <<>> THEN "neutral"
    ELSE LET txt == LowerText(text)
             pos == Cardinality({w \in POSITIVE_WORDS : Contains(txt, w)})
             neg == Cardinality({w \in NEGATIVE_WORDS : Contains(txt, w)})
         IN  IF pos > neg /\ pos >= 1 THEN "positive"
             ELSE IF neg > pos /\ neg >= 1 THEN "negative"
             ELSE "neutral"

(***************************************************************************)
(* Reply polisher.                                                         *)
(***************************************************************************)
EMOJIS == {"U+1F60E", "U+1F602", "U+1F914", "U+1F644", "U+1F60F", "U+2615"}

PET_NAMES == <<
    <<"b","a","b","y">>, <<"s","w","e","e","t","h","e","a","r","t">>,
    <<"d","a","r","l","i","n","g">>, <<"l","o","v","e">> >>

BUDDY == <<"b","u","d","d","y">>

DEFAULT_WORD == <<"d","e","f","a","u","l","t">>

\* re.sub(r"\n{2,}", "\n", s): of every run of newlines the last one stays
CollapseNewlines(s) ==
    LET Dropped(i) == s[i] = "\n" /\ i < Len(s) /\ s[i + 1] = "\n"
        tagged == [i \in 1..Len(s) |-> <<s[i], ~Dropped(i)>>]
        Kept(x) == x[2]
        kept == SelectSeq(tagged, Kept)
    IN  [i \in 1..Len(kept) |-> kept[i][1]]

\* the length of the pet name \b(baby|sweetheart|darling|love)\b matches at
\* position i of s, case-insensitively, or 0
MatchAt(s, i) ==
    LET hit(w) == /\ i + Len(w) - 1 <= Len(s)
                  /\ LowerChar(s[i]) = w[1]
                  /\ (i = 1 \/ ~IsWordChar(s[i - 1]))
                  /\ (i + Len(w) > Len(s) \/ ~IsWordChar(s[i + Len(w)]))
                  /\ LowerText(SubSeq(s, i, i + Len(w) - 1)) = w
        ws == {k \in 1..Len(PET_NAMES) : hit(PET_NAMES[k])}
    IN  IF ws = {} THEN 0
        ELSE Len(PET_NAMES[CHOOSE k \in ws : \A j \in ws : k <= j])

\* what position i of s gives to the result of the substitution: "buddy"
\* where a match starts, nothing inside a match, the character elsewhere
\* (a match is a run of word characters between two word boundaries, so no
\* match starts inside another one)
ScrubPiece(s, i) ==
    IF MatchAt(s, i) > 0 THEN BUDDY
    ELSE IF \E j \in (IF i > 10 THEN i - 10 ELSE 1)..(i - 1) : MatchAt(s, j) > i - j
    THEN <<>>
    ELSE <<s[i]>>

\* the pieces of positions lo..hi, one after the other
RECURSIVE ScrubRange(_, _, _)
ScrubRange(s, lo, hi) ==
    IF lo > hi THEN <<>>
    ELSE IF lo = hi THEN ScrubPiece(s, lo)
    ELSE LET mid == (lo + hi) \div 2
         IN  ScrubRange(s, lo, mid) \o ScrubRange(s, mid + 1, hi)

\* re.sub(r"\b(baby|sweetheart|darling|love)\b", "buddy", s, flags=re.IGNORECASE)
Scrub(s) == ScrubRange(s, 1, Len(s))

HasEmoji(s) == \E i \in 1..Len(s) : s[i] \in EMOJIS

polish_reply(raw, mood) ==
    LET t1 == Strip(CollapseNewlines(raw))
        t2 == IF Contains(LowerText(raw), DEFAULT_WORD) \/ mood = "negative"
              THEN Scrub(t1) ELSE t1
        t3 == IF ~HasEmoji(t2)
              THEN t2 \o (IF mood # "negative" THEN <<" ", "U+1F60E">>
                                               ELSE <<" ", "U+2615">>)
              ELSE t2
    IN  Take(t3, REPLY_MAX_CHARS)

(***************************************************************************)
(* Memory records and the memory files.                                    *)
(***************************************************************************)
Turn(role, msg) == [role |-> role, msg |-> msg]

\* {"user": {"name": None, "interests": [], "notes": {}}, "conversations": []}
\* (None is the empty option <<>>)
DefaultRecord ==
    [user |-> [name |-> <<>>, interests |-> <<>>, notes |-> <<>>],
     conversations |-> <<>>]

\* the persona keys requests name: "default" is registered, "levi" is a key
\* of personas.py that groq_handler.PERSONAS does not hold
Keys == {"default", "levi"}

\* UTF-8 bytes of one code point inside a JSON string (ensure_ascii=False)
CharBytes(c) ==
    IF c \in {"\n", "\t", "\r", "\f", "\"", "\\"} THEN 2
    ELSE IF c = "U+2615" THEN 3
    ELSE IF Len(c) > 1 THEN 4
    ELSE 1

\* UTF-8 bytes of s[lo..hi] inside a JSON string
RECURSIVE TextBytes(_, _, _)
TextBytes(s, lo, hi) ==
    IF lo > hi THEN 0
    ELSE IF lo = hi THEN CharBytes(s[lo])
    ELSE LET mid == (lo + hi) \div 2
         IN  TextBytes(s, lo, mid) + TextBytes(s, mid + 1, hi)

\* bytes of the turns conv[lo..hi], each an indented object of two members
RECURSIVE TurnsBytes(_, _, _)
TurnsBytes(conv, lo, hi) ==
    IF lo > hi THEN 0
    ELSE IF lo = hi
    THEN 46 + Len(conv[lo].role) + TextBytes(conv[lo].msg, 1, Len(conv[lo].msg))
    ELSE LET mid == (lo + hi) \div 2
         IN  TurnsBytes(conv, lo, mid) + TurnsBytes(conv, mid + 1, hi)

\* bytes of the value of "name": null, or a JSON string
NameBytes(name) ==
    IF name = <<>> THEN 4 ELSE 2 + TextBytes(name, 1, Len(name))

\* size of json.dump(data, f, indent=2, ensure_ascii=False) for a record
\* whose interests and notes are empty
JsonBytes(data) ==
    LET base == 93 + NameBytes(data.user.name)
    IN  IF data.conversations = <<>> THEN base
        ELSE base + 3 + TurnsBytes(data.conversations, 1, Len(data.conversations))
                  + (Len(data.conversations) - 1)

NonAscii(data) ==
    \E i \in 1..Len(data.conversations) :
        \E j \in 1..Len(data.conversations[i].msg) :
            Len(data.conversations[i].msg[j]) > 1

\* A memory file.  kind "json": the complete dump of data.  kind "corrupt":
\* not a JSON document (empty, a prefix of a dump, or a dump followed by the
\* tail of a longer one); midchar: its bytes are not valid UTF-8; writer: the
\* operation whose open or write left it so.  wide: the dump it holds, or
\* holds part of, has a character outside ASCII.  bytes is the file's size,
\* for a prefix of a dump (exact = FALSE) a strict upper bound of it.
MissingFile ==
    [kind |-> "missing", data |-> DefaultRecord, midchar |-> FALSE,
     writer |-> "none", wide |-> FALSE, bytes |-> 0, exact |-> TRUE]

JsonFile(data) ==
    [kind |-> "json", data |-> data, midchar |-> FALSE,
     writer |-> "none", wide |-> NonAscii(data), bytes |-> JsonBytes(data),
     exact |-> TRUE]

CorruptFile(writer, wide, mid, bytes, exact) ==
    [kind |-> "corrupt", data |-> DefaultRecord, midchar |-> mid,
     writer |-> writer, wide |-> wide, bytes |-> bytes, exact |-> exact]

EmptyFile(writer) == CorruptFile(writer, FALSE, FALSE, 0, TRUE)

Max(a, b) == IF a > b THEN a ELSE b

\* a variant of open that keeps the content (mode "r+"): not what the code does
OpenKeepingContent(cur, writer) == cur

\* open(path, "w"): the file exists and is empty afterwards
OpenForWrite(cur, writer) == EmptyFile(writer)

\* what the file can hold after json.dump(data, f) and close, the writer's
\* open having truncated it earlier: the dump, or, when another writer made
\* the file longer than the dump meanwhile, the dump followed by the rest of
\* the longer content (which may start inside a multi-byte character)
WriteOutcomes(cur, data, writer) ==
    LET n == JsonBytes(data)
        longest == IF cur.exact THEN cur.bytes ELSE cur.bytes - 1
        shortest == IF cur.exact THEN cur.bytes ELSE IF cur.bytes > 1 THEN 1 ELSE 0
    IN  {JsonFile(data) : x \in IF shortest <= n THEN {1} ELSE {}}
        \cup
        {CorruptFile(writer, cur.wide \/ NonAscii(data), mid, cur.bytes, cur.exact) :
            mid \in IF longest > n
                    THEN {FALSE} \cup (IF cur.wide THEN {TRUE} ELSE {})
                    ELSE {}}

\* what the file can hold after the write raised IOError: nothing of the dump
\* reached it, or a strict prefix did (which may end inside a multi-byte
\* character)
WriteFailOutcomes(cur, data, writer) ==
    {cur}
    \cup
    {CorruptFile(writer, cur.wide \/ NonAscii(data), mid,
                 Max(JsonBytes(data), cur.bytes), FALSE) :
        mid \in {FALSE} \cup (IF NonAscii(data) THEN {TRUE} ELSE {})}

\* except (IOError, json.JSONDecodeError) of load_persona_memory
LoadCatches(e) == e \in {"IOError", "JSONDecodeError"}

\* what open(path, "r") and json.load(f) give for a file
ReadOutcome(f) ==
    IF f.kind = "json" THEN [ok |-> TRUE, data |-> f.data, exc |-> "none"]
    ELSE IF f.kind = "missing"
    THEN [ok |-> FALSE, data |-> DefaultRecord, exc |-> "IOError"]
    ELSE IF f.midchar
    THEN [ok |-> FALSE, data |-> DefaultRecord, exc |-> "UnicodeDecodeError"]
    ELSE [ok |-> FALSE, data |-> DefaultRecord, exc |-> "JSONDecodeError"]

(***************************************************************************)
(* Message building and the bookkeeping of generate_response and chat.     *)
(***************************************************************************)
\* if not persona_key in PERSONAS: persona_key = "default"
ResolvePersona(key) == IF key \in DOMAIN PERSONAS THEN key ELSE "default"

\* not message.strip()
Blank(message) == Strip(message) = <<>>

\* a variant that takes the oldest stored turns for the context
build_messages_oldest(user_message, persona_key, mem) ==
    LET old_conv == Take(mem.conversations, CONTEXT_TURNS)
    IN  <<[role |-> "system", content |-> PERSONAS[persona_key].system_prompt]>>
        \o [i \in 1..Len(old_conv) |->
               [role |-> IF old_conv[i].role = "user" THEN "user" ELSE "assistant",
                content |-> old_conv[i].msg]]
        \o <<[role |-> "user", content |-> user_message]>>

build_messages(user_message, persona_key, mem) ==
    LET recent_conv == LastN(mem.conversations, CONTEXT_TURNS)
    IN  <<[role |-> "system", content |-> PERSONAS[persona_key].system_prompt]>>
        \o [i \in 1..Len(recent_conv) |->
               [role |-> IF recent_conv[i].role = "user" THEN "user" ELSE "assistant",
                content |-> recent_conv[i].msg]]
        \o <<[role |-> "user", content |-> user_message]>>

\* the two appends of a request: the user's message, then the reply
NewTurns(user_message, reply) ==
    << Turn("user", Take(user_message, TURN_MAX_CHARS)),
       Turn("assistant", Take(reply, TURN_MAX_CHARS)) >>

\* a variant of the trim that keeps the oldest turns: not what the code does
TrimKeepingOldest(conversations, max) == Take(conversations, max)

\* if len(conversations) > max: conversations = conversations[-max:]
TrimHistory(conversations, max) ==
    IF Len(conversations) > max THEN LastN(conversations, max) ELSE conversations

\* a variant that tries the fallback model whatever the primary attempt gave
FallbackAlways(primary_ok) == TRUE

\* the fallback model is tried when the primary attempt raised
FallbackNeeded(primary_ok) == ~primary_ok

\* a variant whose reply names the rate limit when that is what the fallback
\* raised
BothFailedNamingError(e2) ==
    IF e2 = "RateLimitError" THEN <<"r","a","t","e"," ","l","i","m","i","t">>
    ELSE APOLOGY

\* return value of generate_response after the fallback raised e2
BothFailedReply(e2) == APOLOGY

\* except Exception of generate_response
GenCatches(e) == TRUE

\* a variant of chat that resets the memory before it looks at the message
ChatEntryResetFirst(message, reset) ==
    IF reset THEN "reset" ELSE IF Blank(message) THEN "reject" ELSE "generate"

\* what chat does with a request before anything else
ChatEntry(message, reset) ==
    IF Blank(message) THEN "reject" ELSE IF reset THEN "reset" ELSE "generate"

(***************************************************************************)
(* State.                                                                  *)
(*   files     the memory file of each persona key                         *)
(*   proc      each worker's request: its position (pc), its arguments and *)
(*             locals, its response (result), and a record of what the     *)
(*             request did (calls, appends, wrote, ...)                    *)
(*   appended  per persona key, every turn that was appended to its record *)
(*             and saved since the record was last reset, in the order of  *)
(*             the saves                                                   *)
(*   userMeta  per persona key, the user part its record was last given by *)
(*             POST /memory/update or by a reset                           *)
(*   faultsLeft  storage faults the environment may still inject           *)
(*   started   requests started so far                                     *)
(***************************************************************************)
VARIABLES files, proc, appended, userMeta, faultsLeft, started

vars == <<files, proc, appended, userMeta, faultsLeft, started>>

NoResult == [status |-> 0, reply |-> <<>>, mode |-> "", display_name |-> "", detail |-> "none"]

IdleProc ==
    [pc |-> "idle", entry |-> "none", message |-> <<>>, reqmode |-> "default",
     mode |-> "default", reset |-> FALSE, key |-> "default", mood |-> "neutral",
     messages |-> <<>>, polished |-> <<>>, reply |-> <<>>, mem |-> DefaultRecord,
     lkey |-> "default", site |-> "none", result |-> NoResult,
     genret |-> <<>>, genraised |-> FALSE, calls |-> <<>>, appends |-> <<>>,
     wrote |-> {}, loadraised |-> FALSE, sawtorn |-> FALSE, saveraised |-> FALSE,
     histkey |-> <<>>, prompt |-> <<>>, raw |-> <<>>]

\* the requests' inputs
Messages == { <<>>, <<" ">>, <<"s","a","d">> }

\* the messages of two requests that run at the same time
ConcMessages == { <<"h","i">>, <<"s","a","d">> }

\* the persona keys of the direct calls of generate_response: a key outside
\* the registry (the calls with the registered key are the ones chat makes)
DirectKeys == {"levi"}

\* the query parameters of the POST /chat requests: mode and reset
ChatParams == { <<"default", FALSE>>, <<"default", TRUE>>, <<"levi", FALSE>> }

\* message.content of a completion
Contents == { <<"L","o","v","e","\n","\n","y","a"," ">> }

\* what a completion call can raise
ApiErrors == {"APITimeoutError", "RateLimitError"}

RECURSIVE Digits(_)
Digits(n) ==
    IF n < 10 THEN <<DigitChars[n + 1]>>
    ELSE Digits(n \div 10) \o <<DigitChars[(n % 10) + 1]>>

\* the history n earlier appends leave: exchange i is the message "i" and
\* its polished reply
OldHistory(n) ==
    [i \in 1..n |->
        IF i % 2 = 1 THEN Turn("user", Digits((i + 1) \div 2))
        ELSE Turn("assistant", polish_reply(Digits(i \div 2), "neutral"))]

\* the user part of the default persona's record after POST /memory/update
\* with {"name": "Sam"}
StoredUser == [DefaultRecord.user EXCEPT !.name = <<"S", "a", "m">>]

\* lengths of the default persona's history when the run starts
InitTurns == {0, MAX_CONVERSATION_HISTORY - 2}

Init ==
    /\ \E n \in InitTurns :
         /\ files = [k \in Keys |->
                        IF k = "default" /\ n > 0
                        THEN JsonFile([user |-> StoredUser,
                                       conversations |-> OldHistory(n)])
                        ELSE MissingFile]
         /\ appended = [k \in Keys |-> IF k = "default" THEN OldHistory(n) ELSE <<>>]
         /\ userMeta = [k \in Keys |-> IF k = "default" /\ n > 0
                                         THEN StoredUser ELSE DefaultRecord.user]
    /\ proc = [p \in Procs |-> IdleProc]
    /\ faultsLeft = MaxFaults
    /\ started = 0

(***************************************************************************)
(* Control flow of one request: what a return or a raise leads to.         *)
(***************************************************************************)
StartLoad(r, key, site) == [r EXCEPT !.pc = "load", !.lkey = key, !.site = site]

StartSave(r, key, site, data) ==
    [r EXCEPT !.pc = "save_open", !.lkey = key, !.site = site, !.mem = data]

\* except Exception of chat: HTTPException(status_code=500)
ChatExcept(r, e) ==
    [r EXCEPT !.pc = "done", !.mem = DefaultRecord, !.messages = <<>>,
              !.result = [NoResult EXCEPT !.status = 500, !.detail = e]]

\* the return statement of chat
ChatRespond(r) ==
    IF "name" \in DOMAIN PERSONAS[r.mode]
    THEN [r EXCEPT !.pc = "done", !.mem = DefaultRecord,
                   !.result = [status |-> 200, reply |-> r.reply, mode |-> r.mode,
                               display_name |-> PERSONAS[r.mode].name,
                               detail |-> "none"]]
    ELSE ChatExcept(r, "KeyError")

\* generate_response returns value: to the caller of a direct call, or to
\* chat, which goes on to its own memory update
GenReturn(r, value) ==
    LET g == [r EXCEPT !.genret = <<value>>, !.messages = <<>>,
                       !.mem = DefaultRecord]
    IN  IF r.entry = "gen"
        THEN [g EXCEPT !.pc = "done", !.result = [NoResult EXCEPT !.reply = value]]
        ELSE StartLoad([g EXCEPT !.reply = value], g.mode, "chat")

\* an exception inside the try block of generate_response
GenExcept(r, e) ==
    IF GenCatches(e) THEN GenReturn(r, APOLOGY)
    ELSE IF r.entry = "gen"
    THEN [r EXCEPT !.pc = "done", !.genraised = TRUE]
    ELSE ChatExcept([r EXCEPT !.genraised = TRUE], e)

\* load_persona_memory returns mem to its call site: build_messages ("bm"),
\* generate_response ("gr") or chat ("chat")
LoadReturn(r, mem) ==
    IF r.site = "bm"
    THEN [r EXCEPT !.pc = "call_primary",
                   !.messages = build_messages(r.message, r.lkey, mem),
                   !.histkey = <<r.lkey>>,
                   !.prompt = PERSONAS[r.lkey].system_prompt]
    ELSE IF r.site = "gr"
    THEN LET t == NewTurns(r.message, r.polished)
         IN  StartSave([r EXCEPT !.appends = @ \o t], r.lkey, "gr",
                       [mem EXCEPT !.conversations = TrimHistory(@ \o t, GR_MAX_HISTORY)])
    ELSE LET t == NewTurns(r.message, r.reply)
         IN  StartSave([r EXCEPT !.appends = @ \o t], r.lkey, "chat",
                       [mem EXCEPT !.conversations =
                                       TrimHistory(@ \o t, MAX_CONVERSATION_HISTORY)])

\* an exception inside load_persona_memory
LoadExcept(r, e) ==
    IF LoadCatches(e) THEN LoadReturn(r, DefaultRecord)
    ELSE IF r.site = "chat" THEN ChatExcept([r EXCEPT !.loadraised = TRUE], e)
    ELSE GenExcept([r EXCEPT !.loadraised = TRUE], e)

\* save_persona_memory returns to its call site: the reset of chat
\* ("reset"), generate_response ("gr") or chat ("chat")
SaveReturn(r) ==
    IF r.site = "reset" THEN [r EXCEPT !.pc = "gr_entry", !.mem = DefaultRecord]
    ELSE IF r.site = "gr" THEN GenReturn(r, r.polished)
    ELSE ChatRespond(r)

\* save_persona_memory logs the IOError and raises it again
SaveExcept(r, e) ==
    IF r.site = "gr" THEN GenExcept([r EXCEPT !.saveraised = TRUE], e)
    ELSE ChatExcept(r, e)

\* the turns the request appended to the record it is saving: the two of
\* its latest load, append and save
SavedTurns(r) == LastN(r.appends, 2)

(***************************************************************************)
(* Actions.                                                                *)
(***************************************************************************)
Free(p) == proc[p].pc \in {"idle", "done"} /\ started < MaxRequests

\* POST /chat: mode defaulting, blank check, then reset or generate_response
StartChat(p, message, mode, reset) ==
    LET m == ResolvePersona(mode)
        r0 == [IdleProc EXCEPT !.entry = "chat", !.message = message,
                               !.reqmode = mode, !.mode = m, !.key = m,
                               !.reset = reset]
        e == ChatEntry(message, reset)
    IN  /\ proc' = [proc EXCEPT ![p] =
               IF e = "reject"
               THEN [r0 EXCEPT !.pc = "done",
                               !.result = [NoResult EXCEPT !.status = 400,
                                                           !.detail = "Empty message!"]]
               ELSE IF e = "reset" THEN StartSave(r0, m, "reset", DefaultRecord)
               ELSE [r0 EXCEPT !.pc = "gr_entry"]]
        /\ started' = started + 1
        /\ UNCHANGED <<files, appended, userMeta, faultsLeft>>

ChatRequest(p) ==
    /\ Free(p)
    /\ \E message \in Messages, q \in ChatParams :
         StartChat(p, message, q[1], q[2])

\* a direct call generate_response(message, persona_key=key)
GenRequest(p) ==
    /\ Free(p)
    /\ \E message \in Messages, key \in DirectKeys :
         proc' = [proc EXCEPT ![p] =
                     [IdleProc EXCEPT !.entry = "gen", !.message = message,
                                      !.reqmode = key, !.mode = key, !.key = key,
                                      !.pc = "gr_entry"]]
    /\ started' = started + 1
    /\ UNCHANGED <<files, appended, userMeta, faultsLeft>>

\* generate_response up to the load of build_messages: blank check, mood,
\* persona defaulting
GenerateStart(p) ==
    LET r == proc[p]
    IN  /\ r.pc = "gr_entry"
        /\ proc' = [proc EXCEPT ![p] =
               IF Blank(r.message) THEN GenReturn(r, BLANK_REPLY)
               ELSE StartLoad([r EXCEPT !.mood = detect_mood(r.message)],
                              ResolvePersona(r.key), "bm")]
        /\ UNCHANGED <<files, appended, userMeta, faultsLeft, started>>

\* ensure_persona_memory finds no file: os.path.exists(path) is False
LoadEnsureCheck(p) ==
    LET r == proc[p]
    IN  /\ r.pc = "load"
        /\ files[r.lkey].kind = "missing"
        /\ proc' = [proc EXCEPT ![p].pc = "ensure_open"]
        /\ UNCHANGED <<files, appended, userMeta, faultsLeft, started>>

\* ensure_persona_memory: open(path, "w")
EnsureOpen(p) ==
    LET r == proc[p]
    IN  /\ r.pc = "ensure_open"
        /\ \/ /\ files' = [files EXCEPT ![r.lkey] = OpenForWrite(@, "ensure")]
              /\ proc' = [proc EXCEPT ![p] =
                     [r EXCEPT !.pc = "ensure_write", !.wrote = @ \cup {r.lkey}]]
              /\ UNCHANGED <<appended, userMeta, faultsLeft>>
           \/ /\ faultsLeft > 0
              /\ faultsLeft' = faultsLeft - 1
              /\ proc' = [proc EXCEPT ![p] = LoadExcept(r, "IOError")]
              /\ UNCHANGED <<files, appended, userMeta>>
        /\ UNCHANGED started

\* ensure_persona_memory: json.dump(initial, f) and close
EnsureWrite(p) ==
    LET r == proc[p]
    IN  /\ r.pc = "ensure_write"
        /\ \/ /\ \E f \in WriteOutcomes(files[r.lkey], DefaultRecord, "ensure") :
                    files' = [files EXCEPT ![r.lkey] = f]
              /\ proc' = [proc EXCEPT ![p].pc = "load_read"]
              /\ UNCHANGED <<appended, userMeta, faultsLeft>>
           \/ /\ faultsLeft > 0
              /\ faultsLeft' = faultsLeft - 1
              /\ \E f \in WriteFailOutcomes(files[r.lkey], DefaultRecord, "ensure") :
                    files' = [files EXCEPT ![r.lkey] = f]
              /\ proc' = [proc EXCEPT ![p] = LoadExcept(r, "IOError")]
              /\ UNCHANGED <<appended, userMeta>>
        /\ UNCHANGED started

\* load_persona_memory: open(path, "r") and json.load(f), after ensure
\* found the file (a file that exists is never removed, so the check and
\* the read are one step) or created it
LoadRead(p) ==
    LET r == proc[p]
        f == files[r.lkey]
        out == ReadOutcome(f)
        seen == [r EXCEPT !.sawtorn = @ \/ (f.kind = "corrupt" /\ f.writer = "save")]
    IN  /\ \/ r.pc = "load" /\ f.kind # "missing"
           \/ r.pc = "load_read"
        /\ \/ /\ proc' = [proc EXCEPT ![p] =
                     IF out.ok THEN LoadReturn(seen, out.data)
                     ELSE LoadExcept(seen, out.exc)]
              /\ UNCHANGED faultsLeft
           \/ /\ faultsLeft > 0
              /\ faultsLeft' = faultsLeft - 1
              /\ proc' = [proc EXCEPT ![p] = LoadExcept(r, "IOError")]
        /\ UNCHANGED <<files, appended, userMeta, started>>

\* after a completion: the polished reply, then the load of generate_response
AfterCompletion(r, raw) ==
    StartLoad([r EXCEPT !.polished = polish_reply(raw, r.mood)], r.key, "gr")

\* client.chat.completions.create(model="llama-3.3-70b-versatile", ...)
CallPrimary(p) ==
    LET r == proc[p]
    IN  /\ r.pc = "call_primary"
        /\ \/ \E content \in Contents :
                LET c == [r EXCEPT !.calls = Append(@, [model |-> PRIMARY_MODEL, ok |-> TRUE])]
                IN  proc' = [proc EXCEPT ![p] =
                        IF FallbackNeeded(TRUE) THEN [c EXCEPT !.pc = "call_fallback"]
                        ELSE AfterCompletion(c, Strip(content))]
           \/ \E e \in ApiErrors :
                LET c == [r EXCEPT !.calls = Append(@, [model |-> PRIMARY_MODEL, ok |-> FALSE])]
                IN  proc' = [proc EXCEPT ![p] =
                        IF FallbackNeeded(FALSE) THEN [c EXCEPT !.pc = "call_fallback"]
                        ELSE GenExcept(c, e)]
        /\ UNCHANGED <<files, appended, userMeta, faultsLeft, started>>

\* client.chat.completions.create(model="meta-llama/llama-4-scout-17b-16e-instruct", ...)
CallFallback(p) ==
    LET r == proc[p]
    IN  /\ r.pc = "call_fallback"
        /\ \/ \E content \in Contents :
                proc' = [proc EXCEPT ![p] =
                    AfterCompletion(
                        [r EXCEPT !.calls = Append(@, [model |-> FALLBACK_MODEL, ok |-> TRUE])],
                        SCOUT_PREFIX \o Strip(content))]
           \/ \E e2 \in ApiErrors :
                proc' = [proc EXCEPT ![p] =
                    GenReturn(
                        [r EXCEPT !.calls = Append(@, [model |-> FALLBACK_MODEL, ok |-> FALSE])],
                        BothFailedReply(e2))]
        /\ UNCHANGED <<files, appended, userMeta, faultsLeft, started>>

\* save_persona_memory: open(path, "w")
SaveOpen(p) ==
    LET r == proc[p]
    IN  /\ r.pc = "save_open"
        /\ \/ /\ files' = [files EXCEPT ![r.lkey] = OpenForWrite(@, "save")]
              /\ proc' = [proc EXCEPT ![p] =
                     [r EXCEPT !.pc = "save_write", !.wrote = @ \cup {r.lkey}]]
              /\ appended' = IF r.site = "reset"
                             THEN [appended EXCEPT ![r.lkey] = <<>>] ELSE appended
              /\ userMeta' = IF r.site = "reset"
                             THEN [userMeta EXCEPT ![r.lkey] = r.mem.user] ELSE userMeta
              /\ UNCHANGED faultsLeft
           \/ /\ faultsLeft > 0
              /\ faultsLeft' = faultsLeft - 1
              /\ proc' = [proc EXCEPT ![p] = SaveExcept(r, "IOError")]
              /\ UNCHANGED <<files, appended, userMeta>>
        /\ UNCHANGED started

\* save_persona_memory: json.dump(data, f) and close
SaveWrite(p) ==
    LET r == proc[p]
    IN  /\ r.pc = "save_write"
        /\ \/ /\ \E f \in WriteOutcomes(files[r.lkey], r.mem, "save") :
                    files' = [files EXCEPT ![r.lkey] = f]
              /\ proc' = [proc EXCEPT ![p] = SaveReturn(r)]
              /\ appended' = IF r.site = "reset" THEN appended
                             ELSE [appended EXCEPT ![r.lkey] = @ \o SavedTurns(r)]
              /\ UNCHANGED userMeta
              /\ UNCHANGED faultsLeft
           \/ /\ faultsLeft > 0
              /\ faultsLeft' = faultsLeft - 1
              /\ \E f \in WriteFailOutcomes(files[r.lkey], r.mem, "save") :
                    files' = [files EXCEPT ![r.lkey] = f]
              /\ proc' = [proc EXCEPT ![p] = SaveExcept(r, "IOError")]
              /\ UNCHANGED <<appended, userMeta>>
        /\ UNCHANGED started

\* the steps of a request in progress
Progress(p) ==
    \/ GenerateStart(p)
    \/ LoadEnsureCheck(p)
    \/ EnsureOpen(p)
    \/ EnsureWrite(p)
    \/ LoadRead(p)
    \/ CallPrimary(p)
    \/ CallFallback(p)
    \/ SaveOpen(p)
    \/ SaveWrite(p)

(***************************************************************************)
(* Spec: one worker serves requests one after the other.                   *)
(***************************************************************************)
Next ==
    \/ ChatRequest("w1")
    \/ GenRequest("w1")
    \/ Progress("w1")

Spec == Init /\ [][Next]_vars

(***************************************************************************)
(* SpecConc: two workers serve one POST /chat request each for the default *)
(* persona (a message that is not blank, no reset), their steps            *)
(* interleaved in any order, and no storage operation fails.  The workers  *)
(* being alike, w2 is the one that starts second.                          *)
(***************************************************************************)
ConcurrentChat(p) ==
    /\ proc[p].pc = "idle"
    /\ p = "w2" => proc["w1"].pc # "idle"
    /\ \E message \in ConcMessages : StartChat(p, message, "default", FALSE)

InitConc ==
    /\ files = [k \in Keys |-> MissingFile]
    /\ appended = [k \in Keys |-> <<>>]
    /\ userMeta = [k \in Keys |-> DefaultRecord.user]
    /\ proc = [p \in Procs |-> IdleProc]
    /\ faultsLeft = 0
    /\ started = 0

NextConc == \E p \in Procs : ConcurrentChat(p) \/ Progress(p)

SpecConc == InitConc /\ [][NextConc]_vars

(***************************************************************************)
(* SpecPolish: polish_reply applied to one raw text and one mood.  The raw  *)
(* texts are a run of "a" of a length around the cap, followed by one of a  *)
(* few endings.                                                            *)
(***************************************************************************)
Moods == {"positive", "negative", "neutral"}

\* lengths of the run: none, one, and four around the cap of the reply
RunLengths ==
    {0, 1} \cup { REPLY_MAX_CHARS + d : d \in {-2, -1, 0, 1} }

\* what follows the run
Endings ==
    { <<>>,
      <<" ">>,
      <<"U+1F602">>,
      <<"\n", "\n", "\n", "x">>,
      <<" ", "L", "o", "v", "e", " ", "d", "e", "f", "a", "u", "l", "t">> }

RawText(n, ending) == [i \in 1..n |-> "a"] \o ending

InitPolish ==
    /\ files = [k \in Keys |-> MissingFile]
    /\ appended = [k \in Keys |-> <<>>]
    /\ userMeta = [k \in Keys |-> DefaultRecord.user]
    /\ \E n \in RunLengths, ending \in Endings, mood \in Moods :
          proc = [p \in Procs |->
                    IF p = "w1"
                    THEN [IdleProc EXCEPT !.pc = "polish", !.entry = "polish",
                                          !.raw = RawText(n, ending),
                                          !.mood = mood]
                    ELSE IdleProc]
    /\ faultsLeft = 0
    /\ started = 0

\* reply = polish_reply(raw, mood)
PolishCall(p) ==
    /\ proc[p].pc = "polish"
    /\ proc' = [proc EXCEPT ![p].pc = "done",
                            ![p].polished = polish_reply(proc[p].raw, proc[p].mood)]
    /\ UNCHANGED <<files, appended, userMeta, faultsLeft, started>>

NextPolish == PolishCall("w1")

SpecPolish == InitPolish /\ [][NextPolish]_vars

(***************************************************************************)
(* Properties.                                                             *)
(***************************************************************************)
\* no request is in progress
Quiet == \A p \in Procs : proc[p].pc \in {"idle", "done"}

\* no storage operation has failed so far
NoStorageFault == faultsLeft = MaxFaults

\* the request obtained a completion from the primary or the fallback model
GotCompletion(r) == \E i \in 1..Len(r.calls) : r.calls[i].ok

\* both completion calls of the request failed
BothFailed(r) == Len(r.calls) = 2 /\ ~r.calls[1].ok /\ ~r.calls[2].ok

\* the file of key k holds the last min(n, 60) of the n turns appended to
\* k's record since its last reset, in the order of the appends
StoredIsTail(k) ==
    IF files[k].kind = "missing" THEN appended[k] = <<>>
    ELSE /\ files[k].kind = "json"
         /\ files[k].data.conversations = LastN(appended[k], MAX_CONVERSATION_HISTORY)

\* C1: a finished POST /chat request that obtained a completion (no storage
\* operation having failed) has appended exactly two turns: the user's
\* message, then the assistant's reply, each once.
C1_TwoAppendsPerChat ==
    \A p \in Procs :
        LET r == proc[p]
        IN  (r.pc = "done" /\ r.entry = "chat" /\ GotCompletion(r) /\ NoStorageFault)
            => r.appends = NewTurns(r.message, r.polished)

\* the default persona's record has not been reset since the run started
\* with a history of 58 turns
NeverReset ==
    LET start == OldHistory(MAX_CONVERSATION_HISTORY - 2)
    IN  /\ Len(appended["default"]) >= Len(start)
        /\ Take(appended["default"], Len(start)) = start

C3_ReplySurvivesSaveFailure ==
    \A p \in Procs :
        LET r == proc[p]
        IN  (r.saveraised /\ GotCompletion(r) /\ r.genret # <<>>)
            => r.genret = <<r.polished>>

\* C4: a request makes at most two completion calls; the first is to the
\* primary model; a second one is to the fallback model and is made only
\* when the first one failed.
C4_PrimaryThenFallback ==
    \A p \in Procs :
        LET c == proc[p].calls
        IN  /\ Len(c) <= 2
            /\ Len(c) >= 1 => c[1].model = PRIMARY_MODEL
            /\ Len(c) = 2 => (c[2].model = FALLBACK_MODEL /\ ~c[1].ok)

\* a finished request whose primary call failed and whose fallback call
\* gave the completion
C4_FallbackUsed ==
    \E p \in Procs :
        LET r == proc[p]
        IN  /\ r.pc = "done"
            /\ Len(r.calls) = 2
            /\ ~r.calls[1].ok
            /\ r.calls[2].ok

\* C5: when both completion calls failed, generate_response has returned
\* the fixed apology, whatever the two calls raised, and has raised nothing.
C5_ApologyWhenBothFail ==
    \A p \in Procs :
        LET r == proc[p]
        IN  BothFailed(r) => (r.genret = <<APOLOGY>> /\ ~r.genraised)

\* a direct call of generate_response whose two completion calls failed has
\* returned
C5_BothFailedReturned ==
    \E p \in Procs :
        LET r == proc[p]
        IN  /\ r.pc = "done"
            /\ r.entry = "gen"
            /\ BothFailed(r)
            /\ r.result.reply = APOLOGY

\* C6: no step of a request with a blank message changes a memory file;
\* such a request makes no completion call, appends no turn, opens no file
\* for writing, and ends with status 400 (POST /chat, reset or not) or with
\* the fixed blank-message reply (generate_response).
C6_BlankRejectedFirst ==
    [][ \A p \in Procs :
          (proc'[p].pc # "idle" /\ Blank(proc'[p].message))
            => /\ files' = files
               /\ proc'[p].calls = <<>>
               /\ proc'[p].appends = <<>>
               /\ proc'[p].wrote = {}
               /\ proc'[p].pc \in {"gr_entry", "done"}
               /\ proc'[p].pc = "done"
                    => IF proc'[p].entry = "chat"
                       THEN proc'[p].result.status = 400
                       ELSE proc'[p].genret = <<BLANK_REPLY>>
      ]_vars

\* POST /chat with a whitespace-only message and reset=true was answered
\* while the default persona's file holds a history
C6_BlankResetRejected ==
    \E p \in Procs :
        LET r == proc[p]
        IN  /\ r.pc = "done"
            /\ r.entry = "chat"
            /\ r.reset
            /\ r.message # <<>>
            /\ Blank(r.message)
            /\ r.result.status = 400
            /\ files["default"].kind = "json"
            /\ files["default"].data.conversations # <<>>

\* C7: a finished POST /chat request that named a persona id outside the
\* registry (message not blank, no storage operation having failed) was
\* answered with status 200, the default persona's id and a display name,
\* its completion calls having been made with the default system prompt.
C7_UnknownPersonaServed ==
    \A p \in Procs :
        LET r == proc[p]
        IN  (/\ r.pc = "done"
             /\ r.entry = "chat"
             /\ r.reqmode \notin DOMAIN PERSONAS
             /\ ~Blank(r.message)
             /\ NoStorageFault)
            => /\ r.result.status = 200
               /\ r.result.mode = "default"
               /\ r.result.display_name # ""
               /\ r.prompt = DEFAULT_SYSTEM_PROMPT

\* C8: no load ever reads a file that a save has left empty, truncated or
\* partially written.
C8_LoadNeverSeesTornSave == \A p \in Procs : ~proc[p].sawtorn

\* C9: no load has raised to its caller.
C9_LoadNeverRaises == \A p \in Procs : ~proc[p].loadraised

\* C10: a save checks nothing of what is stored, whatever the other request
\* has done since the saving request loaded its record: its open empties the
\* file whatever the file holds, and the record a completed save leaves is
\* the one the saving request held in memory.
C10_NoVersionCheck ==
    [][ \A p \in Procs :
          LET r == proc[p]
          IN  /\ (r.pc = "save_open" /\ proc'[p].pc = "save_write")
                   => files'[r.lkey] = EmptyFile("save")
              /\ (r.pc = "save_write" /\ proc'[p].pc # "save_write")
                   => (files'[r.lkey].kind = "json"
                         => files'[r.lkey].data = r.mem)
      ]_vars

\* both requests have finished, every load having read a complete record,
\* each request appended its user's message, and the stored history lacks
\* the message of one of them
C10_LostUpdate ==
    /\ \A p \in Procs : proc[p].pc = "done" /\ ~proc[p].sawtorn
    /\ proc["w1"].message # proc["w2"].message
    /\ files["default"].kind = "json"
    /\ \A p \in Procs :
          Turn("user", proc[p].message) \in Range(proc[p].appends)
    /\ \E p \in Procs :
          Turn("user", proc[p].message)
              \notin Range(files["default"].data.conversations)

\* C11: the text polish_reply returns holds at least one of the six emoji
\* and has at most 1000 characters, for every raw text and every mood.
C11_PolishedHasEmojiWithinCap ==
    \A p \in Procs :
        LET r == proc[p]
        IN  (r.pc = "done" /\ r.entry = "polish")
            => /\ HasEmoji(r.polished)
               /\ Len(r.polished) <= REPLY_MAX_CHARS

\* the length cap alone
C11_WithinCap ==
    \A p \in Procs :
        (proc[p].pc = "done" /\ proc[p].entry = "polish")
            => Len(proc[p].polished) <= REPLY_MAX_CHARS

\* C12: while a request is at its completion calls, its message list is:
\* the system message of the resolved persona, first and the only system
\* message; then one message per turn of the history the load returned, at
\* most 10 of them, oldest first, role "user" kept and any other role sent
\* as assistant; then the new user message, last.  The history is the last
\* 10 turns of the resolved persona's file when the file holds a record and
\* no storage operation has failed, and otherwise these or none.
C12_MessageListShape ==
    \A p \in Procs :
        LET r == proc[p]
            m == r.messages
            f == files[ResolvePersona(r.key)]
            h == Len(m) - 2
            last10 == LastN(f.data.conversations, CONTEXT_TURNS)
        IN  r.pc \in {"call_primary", "call_fallback"}
            => /\ Len(m) >= 2
               /\ m[1] = [role |-> "system",
                          content |-> PERSONAS[ResolvePersona(r.key)].system_prompt]
               /\ \A i \in 2..Len(m) : m[i].role \in {"user", "assistant"}
               /\ m[Len(m)] = [role |-> "user", content |-> r.message]
               /\ h <= CONTEXT_TURNS
               /\ f.kind = "json"
                    => /\ h \in {0, Len(last10)}
                       /\ NoStorageFault => h = Len(last10)
                       /\ \A i \in 1..h :
                             /\ m[i + 1].content = last10[i].msg
                             /\ m[i + 1].role =
                                    IF last10[i].role = "user" THEN "user"
                                    ELSE "assistant"
               /\ f.kind # "json" => h = 0

\* a request is at its primary call with a message list of 12: the system
\* message, the last 10 of more than 10 stored turns, the new message
C12_TenTurnsOfContext ==
    \E p \in Procs :
        /\ proc[p].pc = "call_primary"
        /\ Len(proc[p].messages) = CONTEXT_TURNS + 2
        /\ files["default"].kind = "json"
        /\ Len(files["default"].data.conversations) > CONTEXT_TURNS

\* C13: a POST /chat request whose two completion calls failed appends no
\* assistant turn, and at most the user's message; the apology is in no
\* stored history.
C13_ApologyNotStored ==
    /\ \A p \in Procs :
          LET r == proc[p]
          IN  (r.entry = "chat" /\ BothFailed(r))
              => /\ Len(r.appends) <= 1
                 /\ \A i \in 1..Len(r.appends) : r.appends[i].role = "user"
    /\ \A k \in Keys :
          files[k].kind = "json"
            => Turn("assistant", APOLOGY) \notin Range(files[k].data.conversations)

\* C14: within one call of generate_response, the record whose history was
\* read for the prompt and the record the two new turns are written to
\* belong to the same persona id, for every persona_key argument, one that
\* is not in the registry included.
C14_ReadAndWrittenSamePersona ==
    \A p \in Procs :
        LET r == proc[p]
        IN  (r.site = "gr" /\ r.pc \in {"save_open", "save_write"})
            => r.histkey = <<r.lkey>>

\* C15: a chat request made without the reset flag never changes the
\* persona's stored user profile (name, interests, notes), on every path, a
\* failed memory read included: every stored record holds the user part
\* that POST /memory/update or a reset last gave it.
C15_UserProfileKept ==
    \A k \in Keys :
        files[k].kind = "json" => files[k].data.user = userMeta[k]

====
